---- MODULE Spec2Model ----
(***************************************************************************)
(* Model of the keyboard display subsystem of qmk-hid-display              *)
(* (src/index.js): device discovery, the inbound selection report, the     *)
(* periodic scheduler pass and the chunked, paced HID write.               *)
(*                                                                         *)
(* Every step is one callback of the node event loop run to completion:    *)
(* the timer callback, a "data" or "error" event of the HID handle, the    *)
(* continuation of sendToKeyboard after an awaited wait(), the completion  *)
(* of a data refresh.  The environment (attach, detach, I/O failure) moves *)
(* between callbacks.                                                      *)
(*                                                                         *)
(* JavaScript null is the empty sequence <<>>; a non-null value v of a     *)
(* nullable variable is the one-element sequence <<v>>.  A string is the   *)
(* sequence of its character codes.                                        *)
(*                                                                         *)
(* A callback is an operator from the program's state, as a record with    *)
(* one field per variable, to the state it leaves.  Two more fields say    *)
(* how the callback ended: `thrown`, an error left the callback uncaught,  *)
(* and `rejected`, a promise nobody awaits was rejected.                   *)
(***************************************************************************)
EXTENDS Integers, Sequences, FiniteSets, TLC

VARIABLES
    currentScreenIndex,  \* index.js:41
    screenWidth,         \* index.js:42
    screenHeight,        \* index.js:43
    screens,             \* index.js:39, the lines each slot's renderer closes over
    keyboard,            \* index.js:45, <<>> or <<d>>: a handle on device d
    screenBuffer,        \* index.js:46, <<>> or <<bytes>>
    screenLastUpdate,    \* index.js:47, <<>> or <<text>>
    timer,               \* index.js:48, <<>> or <<period>>
    last_updates,        \* index.js:50-53
    sends,               \* the suspended activations of sendToKeyboard
    devices,             \* what hid.devices() enumerates, in its order
    health,              \* whether I/O on the handle in `keyboard` works
    wire,                \* the packets the handle in `keyboard` received since
                         \* the last packet that starts something (type 1 or 2)
    handleLog,           \* what was written to the handle in `keyboard` since
                         \* it was opened: how many initialization packets,
                         \* and the kind of the first packet
    armed,               \* the number of interval timers that are armed
    proc,                \* "boot", "running" or "crashed" (an uncaught error)
    darwin               \* osu.os.platform() === "darwin"

vars == <<currentScreenIndex, screenWidth, screenHeight, screens, keyboard,
          screenBuffer, screenLastUpdate, timer, last_updates, sends, devices,
          health, wire, handleLog, armed, proc, darwin>>

-----------------------------------------------------------------------------
(* Program constants *)

KEYBOARD_UPDATE_TIME == 1000
STOCK_UPDATE_TIME == 60000
STOCK_BACKGROUND_TIME == STOCK_UPDATE_TIME * 30
WEATHER_UPDATE_TIME == 60000
WEATHER_BACKGROUND_TIME == WEATHER_UPDATE_TIME * 10
PERF_UPDATE_TIME == KEYBOARD_UPDATE_TIME
PERF_BACKGROUND_TIME == PERF_UPDATE_TIME * 10

SCREEN_PERF == 1
SCREEN_STOCK == 2
SCREEN_WEATHER == 3

\* screens.length: slot 0 holds null, slots 1..3 hold a renderer
screensLength == 4

chunkSize == 31

\* ' '.charCodeAt(0)
SpaceCode == 32

\* the descriptor of the keyboard's raw HID interface (index.js:22-24)
KEYBOARD_NAME == "Kyria Keyboard"
KEYBOARD_USAGE_ID == 97
KEYBOARD_USAGE_PAGE == 65376

-----------------------------------------------------------------------------
(* Bounds of the model and the inputs drawn from them *)

\* the widest display a selection report asks for
MaxWidth == 31
\* the tallest display a selection report asks for
MaxHeight == 2
\* the value of Date.now() when the process starts (ms)
BootTime == 2000000

Slots == 1..(screensLength - 1)

\* the strings "A", "AB" and "B"
StrA == <<65>>
StrAB == <<65, 66>>
StrB == <<66>>

\* The lines a slot's renderer closes over once its data refresh came back;
\* before that the slot holds the renderer (w, h) => "", which is <<>> here.
SlotData(s) ==
    CASE s = SCREEN_PERF -> <<StrA>>
      [] s = SCREEN_STOCK -> <<StrA, <<>>>>
      [] s = SCREEN_WEATHER -> <<StrAB, StrB>>

\* the display sizes (width, height) a selection report asks for
Sizes == {<<0, 0>>, <<1, MaxHeight>>, <<MaxWidth, MaxHeight>>}

\* Date.now() as the callbacks read it
Times == {BootTime}

\* Inbound reports, [marker, screen index, width, height]: the selection
\* marker with every slot at every size, with index 0 and with the index one
\* past the last slot, and other markers.
Reports ==
    {<<1, i, sz[1], sz[2]>> : i \in Slots, sz \in Sizes}
    \cup {<<1, i, MaxWidth, MaxHeight>> : i \in {0, screensLength}}
    \cup {<<m, i, MaxWidth, MaxHeight>> : m \in {0, 2}, i \in {1, screensLength}}

\* The keyboard enumerates as two HID interfaces with the same product name:
\* 1, the keyboard proper, and 2, the raw HID interface the program talks to.
KyriaInterfaces == <<1, 2>>

\* the descriptor hid.devices() gives for interface d
Descriptor(d) ==
    CASE d = 1 -> [product |-> KEYBOARD_NAME, usage |-> 6, usagePage |-> 1]
      [] d = 2 -> [product |-> KEYBOARD_NAME, usage |-> KEYBOARD_USAGE_ID,
                   usagePage |-> KEYBOARD_USAGE_PAGE]

\* what opening a device does: it works, or new hid.HID throws, or the handle
\* is there and the write of the initialization packet throws
OpenOutcomes == {"ok", "throws", "initThrows"}

-----------------------------------------------------------------------------
(* Pure helpers *)

Min(a, b) == IF a <= b THEN a ELSE b

Spaces(n) == [i \in 1..n |-> SpaceCode]

\* line.padEnd(w, ' ').slice(0, w)
PadSlice(line, w) ==
    IF Len(line) >= w THEN SubSeq(line, 1, w)
    ELSE line \o Spaces(w - Len(line))

RECURSIVE Join(_)
Join(ls) == IF ls = <<>> THEN <<>> ELSE Head(ls) \o Join(Tail(ls))

\* lines.map(line => line.padEnd(w, ' ').slice(0, w)).slice(0, h).join("")
Render(data, w, h) ==
    Join([k \in 1..Min(h, Len(data)) |-> PadSlice(data[k], w)])

\* index.js:345: the positions of the frame that are padded
PadFrom(screen) == Len(screen) - 1

\* Encode without the padding: the text, cut to the size of the display
EncodeNoPadding(screen, w, h) == SubSeq(screen, 1, Min(Len(screen), h * w))

\* index.js:343-350: the bytes of the frame, one for each pass of the loop
\* (j - 1 is the loop's i), as a sequence
Encode(screen, w, h) ==
    SubSeq([j \in 1..(h * w) |->
               IF (j - 1) >= PadFrom(screen) THEN SpaceCode ELSE screen[j]],
           1, h * w)

\* the number of iterations of the loop of index.js:357
NumChunks(n) == (n + (chunkSize - 1) - 1) \div (chunkSize - 1)

\* PacketType when packetType is never set to 3
PacketTypeNeverContinues(k) == 2

\* index.js:356, 361
PacketType(k) == IF k = 1 THEN 2 ELSE 3

\* index.js:354-362: the packets of a frame
Chunk(buf) ==
    [k \in 1..NumChunks(Len(buf)) |->
        <<0, PacketType(k)>> \o
        SubSeq(buf, (k - 1) * (chunkSize - 1) + 1,
               Min((k - 1) * (chunkSize - 1) + chunkSize - 1, Len(buf)))]

\* keyboard.write(line) throws: no handle (a TypeError) or a failed device
WriteThrows(kb, hl) == kb = <<>> \/ hl # "ok"

\* what the handle has received after one more packet
Written(w, pkt) == IF pkt[2] \in {1, 2} THEN <<pkt>> ELSE Append(w, pkt)

\* index.js:440
InitPacket == <<0, 1, screensLength>>

\* a handle that was written nothing: no handle, or one just opened
NothingWritten == [inits |-> 0, first |-> "none"]

\* what was written to the handle, after one more packet
Logged(lg, pkt) ==
    [inits |-> lg.inits + (IF pkt[2] = 1 THEN 1 ELSE 0),
     first |-> IF lg.first # "none" THEN lg.first
               ELSE IF pkt[2] = 1 THEN "init" ELSE "data"]

\* Matches by the product name alone
MatchesByName(d) == Descriptor(d).product = KEYBOARD_NAME

\* index.js:408-412
Matches(d) ==
    /\ Descriptor(d).product = KEYBOARD_NAME
    /\ Descriptor(d).usage = KEYBOARD_USAGE_ID
    /\ Descriptor(d).usagePage = KEYBOARD_USAGE_PAGE

\* the positions in hid.devices() of the devices that match
MatchingAt(devs) == {k \in 1..Len(devs) : Matches(devs[k])}

\* index.js:407-414, 441: the first device that matches
FirstMatch(devs) ==
    devs[CHOOSE k \in MatchingAt(devs) : \A l \in MatchingAt(devs) : k <= l]

DropAt(seq, i) == SubSeq(seq, 1, i - 1) \o SubSeq(seq, i + 1, Len(seq))

-----------------------------------------------------------------------------
(* The state as a record *)

G ==
    [currentScreenIndex |-> currentScreenIndex, screenWidth |-> screenWidth,
     screenHeight |-> screenHeight, screens |-> screens, keyboard |-> keyboard,
     screenBuffer |-> screenBuffer, screenLastUpdate |-> screenLastUpdate,
     timer |-> timer, last_updates |-> last_updates, sends |-> sends,
     devices |-> devices, health |-> health, wire |-> wire,
     handleLog |-> handleLog, armed |-> armed,
     proc |-> proc, darwin |-> darwin, thrown |-> FALSE, rejected |-> FALSE]

\* index.js:39-53: the state when the module has been loaded, up to its last
\* statement
Loaded(dw) ==
    [currentScreenIndex |-> 0, screenWidth |-> 0, screenHeight |-> 0,
     screens |-> [s \in Slots |-> <<>>], keyboard |-> <<>>,
     screenBuffer |-> <<>>, screenLastUpdate |-> <<>>, timer |-> <<>>,
     last_updates |-> [s \in Slots |-> 0], sends |-> <<>>, devices |-> <<>>,
     health |-> "ok", wire |-> <<>>, handleLog |-> NothingWritten, armed |-> 0,
     proc |-> "boot",
     darwin |-> dw, thrown |-> FALSE, rejected |-> FALSE]

\* the process has exited: nothing of its state is left
Exited(S) == [Loaded(S.darwin) EXCEPT !.proc = "crashed"]

Becomes(S) ==
    /\ currentScreenIndex' = S.currentScreenIndex
    /\ screenWidth' = S.screenWidth
    /\ screenHeight' = S.screenHeight
    /\ screens' = S.screens
    /\ keyboard' = S.keyboard
    /\ screenBuffer' = S.screenBuffer
    /\ screenLastUpdate' = S.screenLastUpdate
    /\ timer' = S.timer
    /\ last_updates' = S.last_updates
    /\ sends' = S.sends
    /\ devices' = S.devices
    /\ health' = S.health
    /\ wire' = S.wire
    /\ handleLog' = S.handleLog
    /\ armed' = S.armed
    /\ proc' = S.proc
    /\ darwin' = S.darwin

\* How a callback that leaves R ends.  An uncaught error ends the process;
\* on a rejected promise nobody awaits node warns and goes on, or exits.
Outcomes(R) ==
    IF R.thrown THEN {Exited(R)}
    ELSE IF R.rejected THEN {R, Exited(R)}
    ELSE {R}

Commit(R) == \E S \in Outcomes(R) : Becomes(S)

-----------------------------------------------------------------------------
(* sendToKeyboard, index.js:328-384 *)

\* Buffering without the test of screenBuffer: every push goes on
NeverBuffering(sb) == FALSE

\* index.js:334, `screenBuffer ||`: a send is suspended between two packets
Buffering(sb) == sb # <<>>

\* SameAsLast without the comparison: no push is taken for a repetition
NeverSameAsLast(last, screen) == FALSE

\* index.js:334, `screenLastUpdate === screen`
SameAsLast(last, screen) == last = <<screen>>

\* An activation of sendToKeyboard that is suspended in an await: its packets,
\* how many of them it has written, and the wait it is in ("pre": before the
\* write, "post": after it).
Activation(lines, idx, pc) == [lines |-> lines, idx |-> idx, pc |-> pc]

\* index.js:373-379: activation i writes its next packet and waits
WriteLine(S, i) ==
    LET a == S.sends[i]
    IN  IF WriteThrows(S.keyboard, S.health)
        THEN [S EXCEPT !.sends = DropAt(@, i), !.rejected = TRUE]
        ELSE [S EXCEPT !.sends[i] = Activation(a.lines, a.idx + 1, "post"),
                       !.wire = Written(@, a.lines[a.idx + 1]),
                       !.handleLog = Logged(@, a.lines[a.idx + 1])]

\* index.js:369-372, 383: activation i at the top of the loop over its packets
LoopTop(S, i) ==
    LET a == S.sends[i]
    IN  IF a.idx = Len(a.lines)
        THEN [S EXCEPT !.screenBuffer = <<>>, !.sends = DropAt(@, i)]
        ELSE IF S.darwin
        THEN [S EXCEPT !.sends[i] = Activation(a.lines, a.idx, "pre")]
        ELSE WriteLine(S, i)

\* Resume when the packets are built again, after each wait, from the screen
\* and the size selected by then
ResumeRechunked(S, i) ==
    LET a == S.sends[i]
        idx == S.currentScreenIndex
        fresh == IF idx \in 1..(screensLength - 1)
                 THEN Chunk(Encode(Render(S.screens[idx], S.screenWidth,
                                          S.screenHeight),
                                   S.screenWidth, S.screenHeight))
                 ELSE a.lines
        S1 == [S EXCEPT !.sends[i] =
                   Activation(fresh, Min(a.idx, Len(fresh)), a.pc)]
    IN  IF a.pc = "pre" /\ S1.sends[i].idx < Len(fresh)
        THEN WriteLine(S1, i) ELSE LoopTop(S1, i)

\* activation i goes on after the wait it was suspended in
Resume(S, i) ==
    IF S.sends[i].pc = "pre" THEN WriteLine(S, i) ELSE LoopTop(S, i)

\* sendToKeyboard when the text is recorded before the two tests
sendToKeyboardRecordsFirst(S, data) ==
    LET screen == Render(data, S.screenWidth, S.screenHeight)
        buf == Encode(screen, S.screenWidth, S.screenHeight)
    IN  IF Buffering(S.screenBuffer) \/ SameAsLast(S.screenLastUpdate, screen)
        THEN [S EXCEPT !.screenLastUpdate = <<screen>>]
        ELSE LoopTop([S EXCEPT !.screenLastUpdate = <<screen>>,
                               !.screenBuffer = <<buf>>,
                               !.sends = Append(@, Activation(Chunk(buf), 0, "post"))],
                     Len(S.sends) + 1)

\* the call, up to its first await; data is what the renderer func closes over
sendToKeyboard(S, data) ==
    LET screen == Render(data, S.screenWidth, S.screenHeight)
        buf == Encode(screen, S.screenWidth, S.screenHeight)
    IN  IF Buffering(S.screenBuffer) \/ SameAsLast(S.screenLastUpdate, screen)
        THEN S
        ELSE LoopTop([S EXCEPT !.screenLastUpdate = <<screen>>,
                               !.screenBuffer = <<buf>>,
                               !.sends = Append(@, Activation(Chunk(buf), 0, "post"))],
                     Len(S.sends) + 1)

-----------------------------------------------------------------------------
(* updateKeyboardScreen, index.js:386-456 *)

ActiveTime(s) ==
    CASE s = SCREEN_PERF -> PERF_UPDATE_TIME
      [] s = SCREEN_STOCK -> STOCK_UPDATE_TIME
      [] s = SCREEN_WEATHER -> WEATHER_UPDATE_TIME

BackgroundTime(s) ==
    CASE s = SCREEN_PERF -> PERF_BACKGROUND_TIME
      [] s = SCREEN_STOCK -> STOCK_BACKGROUND_TIME
      [] s = SCREEN_WEATHER -> WEATHER_BACKGROUND_TIME

\* ShouldRefresh without the test of the selected screen
ShouldRefreshInBackground(s, idx, last, now) ==
    last + BackgroundTime(s) <= now

\* index.js:390, 394, 398
ShouldRefresh(s, idx, last, now) ==
    \/ (idx = s /\ last + ActiveTime(s) <= now)
    \/ last + BackgroundTime(s) <= now

\* index.js:388-401
RefreshDue(S, now) ==
    [S EXCEPT !.last_updates =
        [s \in Slots |->
            IF ShouldRefresh(s, S.currentScreenIndex, S.last_updates[s], now)
            THEN now ELSE S.last_updates[s]]]

\* index.js:404-412: a device is looked for, and one matches
Found(S) == S.keyboard = <<>> /\ MatchingAt(S.devices) # {}

\* index.js:414: a handle on the first device that matches
Opened(S) ==
    [S EXCEPT !.keyboard = <<FirstMatch(S.devices)>>, !.health = "ok",
              !.wire = <<>>, !.handleLog = NothingWritten]

\* WriteInit when the packet is not written
WriteNoInit(S) == S

\* index.js:440
WriteInit(S) ==
    [S EXCEPT !.wire = Written(@, InitPacket),
              !.handleLog = Logged(@, InitPacket)]

\* index.js:404-444
Discover(S, open) ==
    IF ~Found(S) THEN S
    ELSE IF open = "ok"
    THEN WriteInit(Opened(S))
    ELSE IF open = "initThrows"
    THEN [Opened(S) EXCEPT !.thrown = TRUE]
    ELSE [S EXCEPT !.thrown = TRUE]

\* index.js:447, `screens[currentScreenIndex]`: slot 0 holds null
HasRenderer(idx) == idx \in Slots

\* index.js:446-455.  The call of sendToKeyboard is not awaited: what it
\* throws rejects its promise and never reaches the catch.
PushCurrent(S) ==
    IF S.keyboard # <<>> /\ HasRenderer(S.currentScreenIndex)
    THEN sendToKeyboard(S, S.screens[S.currentScreenIndex])
    ELSE S

\* One scheduler pass.  now is Date.now(), open what opening the device does.
updateKeyboardScreen(S, now, open) ==
    LET S1 == Discover(RefreshDue(S, now), open)
    IN  IF S1.thrown THEN S1 ELSE PushCurrent(S1)

\* triggerUpdate without clearInterval: the pending timer stays armed
triggerUpdateNoCancel(S, now, open) ==
    LET S2 == updateKeyboardScreen(S, now, open)
    IN  IF S2.thrown THEN S2
        ELSE [S2 EXCEPT !.armed = @ + 1, !.timer = <<KEYBOARD_UPDATE_TIME>>]

\* triggerUpdate, index.js:458-467; a timer is the period it fires with
triggerUpdate(S, now, open) ==
    LET S1 == IF S.timer # <<>> THEN [S EXCEPT !.armed = @ - 1] ELSE S
        S2 == updateKeyboardScreen(S1, now, open)
    IN  IF S2.thrown THEN S2
        ELSE [S2 EXCEPT !.armed = @ + 1, !.timer = <<KEYBOARD_UPDATE_TIME>>]

\* ValidReport with the index compared to screens.length
ValidReportOffByOne(data) == data[1] = 1 /\ data[2] <= screensLength

\* index.js:425
ValidReport(data) == data[1] = 1 /\ data[2] <= screensLength - 1

\* keyboard.on("data"), index.js:423-434
OnData(S, data, now) ==
    IF ValidReport(data)
    THEN triggerUpdate([S EXCEPT !.currentScreenIndex = data[2],
                                 !.screenWidth = data[3],
                                 !.screenHeight = data[4]], now, "ok")
    ELSE S

\* keyboard.on("error"), index.js:417-420
OnError(S) ==
    [S EXCEPT !.keyboard = <<>>, !.health = "ok", !.wire = <<>>,
              !.handleLog = NothingWritten]

-----------------------------------------------------------------------------
(* The steps *)

\* index.js:469: the module's last statement
Start ==
    /\ proc = "boot"
    /\ \E now \in Times, open \in OpenOutcomes :
           Commit(triggerUpdate([G EXCEPT !.proc = "running"], now, open))

\* the interval timer fires when Date.now() is now, index.js:466
TickAt(now) ==
    /\ proc = "running"
    /\ armed > 0
    /\ \E open \in OpenOutcomes : Commit(updateKeyboardScreen(G, now, open))

Tick == \E now \in Times : TickAt(now)

\* the handle delivers an inbound report when Date.now() is now
DataEventAt(data, now) ==
    /\ proc = "running"
    /\ keyboard # <<>>
    /\ Commit(OnData(G, data, now))

DataEvent(data) == \E now \in Times : DataEventAt(data, now)

\* the handle reports an I/O error
ErrorEvent ==
    /\ proc = "running"
    /\ keyboard # <<>>
    /\ health = "failed"
    /\ Commit(OnError(G))

\* the wait of activation i is over
SendStep(i) ==
    /\ proc = "running"
    /\ i \in DOMAIN sends
    /\ Commit(Resume(G, i))

\* getPerfs, getStocks or getWeather comes back (index.js:100-114, 228-234,
\* 285-317) after the pass triggered it.  getWeather's update of the timestamp
\* (index.js:320) follows the renderer's return and never runs.
RefreshDone(s, now) ==
    /\ proc = "running"
    /\ last_updates[s] # 0
    /\ Commit([G EXCEPT !.screens[s] = SlotData(s),
                        !.last_updates[s] =
                            IF s = SCREEN_WEATHER THEN @ ELSE now])

\* the keyboard is plugged in
Attach ==
    /\ proc # "crashed"
    /\ devices = <<>>
    /\ Commit([G EXCEPT !.devices = KyriaInterfaces])

\* the keyboard is unplugged: I/O on an open handle fails from now on
Detach ==
    /\ proc # "crashed"
    /\ devices # <<>>
    /\ Commit([G EXCEPT !.devices = <<>>,
                        !.health = IF keyboard # <<>> THEN "failed" ELSE @])

\* reads and writes on the open handle start to fail
IoFail ==
    /\ proc = "running"
    /\ keyboard # <<>>
    /\ health = "ok"
    /\ Commit([G EXCEPT !.health = "failed"])

Init ==
    /\ darwin \in BOOLEAN
    /\ currentScreenIndex = Loaded(darwin).currentScreenIndex
    /\ screenWidth = Loaded(darwin).screenWidth
    /\ screenHeight = Loaded(darwin).screenHeight
    /\ screens = Loaded(darwin).screens
    /\ keyboard = Loaded(darwin).keyboard
    /\ screenBuffer = Loaded(darwin).screenBuffer
    /\ screenLastUpdate = Loaded(darwin).screenLastUpdate
    /\ timer = Loaded(darwin).timer
    /\ last_updates = Loaded(darwin).last_updates
    /\ sends = Loaded(darwin).sends
    /\ devices = Loaded(darwin).devices
    /\ health = Loaded(darwin).health
    /\ wire = Loaded(darwin).wire
    /\ handleLog = Loaded(darwin).handleLog
    /\ armed = Loaded(darwin).armed
    /\ proc = Loaded(darwin).proc

Next ==
    \/ Start
    \/ Tick
    \/ \E data \in Reports : DataEvent(data)
    \/ ErrorEvent
    \/ \E i \in 1..Len(sends) : SendStep(i)
    \/ \E s \in Slots, now \in Times : RefreshDone(s, now)
    \/ Attach
    \/ Detach
    \/ IoFail

Spec == Init /\ [][Next]_vars

\* the timer, a wait that is over and a pending error event are served
Fairness ==
    /\ WF_vars(Tick)
    /\ WF_vars(\E i \in 1..Len(sends) : SendStep(i))
    /\ WF_vars(ErrorEvent)

FairSpec == Spec /\ Fairness

\* A part of the behaviours of FairSpec, small enough for the search of a
\* behaviour that goes on for ever: not on darwin, the reports that select
\* the first or the second slot at a one-column size (a frame of one packet),
\* and the refresh of the first slot.
LiveReports == {<<1, i, 1, MaxHeight>> : i \in {SCREEN_PERF, SCREEN_STOCK}}

LiveInit == Init /\ ~darwin

LiveNext ==
    \/ Start
    \/ Tick
    \/ \E data \in LiveReports : DataEvent(data)
    \/ ErrorEvent
    \/ \E i \in 1..Len(sends) : SendStep(i)
    \/ \E now \in Times : RefreshDone(SCREEN_PERF, now)
    \/ Attach
    \/ Detach
    \/ IoFail

LiveSpec == LiveInit /\ [][LiveNext]_vars /\ Fairness

\* The refresh decisions of a pass as time goes by: the passes and the
\* selection reports come at the moments after boot where an interval of
\* index.js:26-32 has just elapsed, or not quite.  The display asks for the
\* size 0 x 0, so that nothing is written, and no refresh comes back.
RefreshTimes ==
    {BootTime, BootTime + PERF_UPDATE_TIME - 1, BootTime + PERF_UPDATE_TIME,
     BootTime + 2 * PERF_UPDATE_TIME, BootTime + PERF_BACKGROUND_TIME - 1,
     BootTime + PERF_BACKGROUND_TIME, BootTime + STOCK_UPDATE_TIME,
     BootTime + STOCK_UPDATE_TIME + PERF_UPDATE_TIME,
     BootTime + WEATHER_BACKGROUND_TIME, BootTime + STOCK_BACKGROUND_TIME}

RefreshReports == {<<1, i, 0, 0>> : i \in 0..(screensLength - 1)}

\* Date.now() does not go back
NotBefore(now) == \A s \in Slots : last_updates[s] <= now

RefreshInit == Init /\ ~darwin

RefreshNext ==
    \/ Start
    \/ Attach
    \/ IoFail
    \/ ErrorEvent
    \/ \E now \in RefreshTimes : NotBefore(now) /\ TickAt(now)
    \/ \E data \in RefreshReports, now \in RefreshTimes :
           NotBefore(now) /\ DataEventAt(data, now)

RefreshSpec == RefreshInit /\ [][RefreshNext]_vars

-----------------------------------------------------------------------------
(* What the claims talk about *)

Payload(pkt) == SubSeq(pkt, 3, Len(pkt))

\* the payloads of packets ps, one after the other
Payloads(ps) == Join([k \in 1..Len(ps) |-> Payload(ps[k])])

\* the text and the frame of the selected screen, as a pass would push them
CurrentText == Render(screens[currentScreenIndex], screenWidth, screenHeight)
CurrentFrame == Encode(CurrentText, screenWidth, screenHeight)

\* a handle is open and works, and the selected slot has a renderer
Connected ==
    /\ proc = "running"
    /\ keyboard # <<>>
    /\ health = "ok"
    /\ HasRenderer(currentScreenIndex)

\* the send-in-progress flag is set and no activation is left to clear it:
\* a send was cut short by a write that threw
CutShort == proc = "running" /\ screenBuffer # <<>> /\ sends = <<>>

\* the packets on the handle are the start of one frame
OneFrame(w) ==
    /\ w[1][2] = 2
    /\ \A k \in 2..Len(w) : w[k][2] = 3
    /\ \A k \in 1..(Len(w) - 1) : Len(Payload(w[k])) = chunkSize - 1

\* the text that a pass pushes after this step
NextText == Render(screens'[currentScreenIndex'], screenWidth', screenHeight')

\* this step changes nothing of the transport: no packet, no flag, no record
TransportUnchanged ==
    /\ wire' = wire
    /\ screenBuffer' = screenBuffer
    /\ screenLastUpdate' = screenLastUpdate
    /\ sends' = sends

\* this step is a pass whose push went past the two tests of index.js:334
PushStarts == proc' = "running" /\ screenLastUpdate' # screenLastUpdate

-----------------------------------------------------------------------------
(* The claims *)

\* the moment now is at least t after the last refresh of slot s
Elapsed(s, now, t) == now - last_updates[s] >= t

\* device d is the keyboard's raw HID interface
IsRawInterface(d) ==
    /\ Descriptor(d).product = "Kyria Keyboard"
    /\ Descriptor(d).usage = 97
    /\ Descriptor(d).usagePage = 65376

\* the first attached raw HID interface of the keyboard, if one is attached
FirstRawInterface ==
    LET at == {k \in 1..Len(devices) : IsRawInterface(devices[k])}
    IN  IF at = {} THEN <<>>
        ELSE <<devices[CHOOSE k \in at : \A l \in at : k <= l]>>

\* the frame that a pass pushes after this step
NextFrame == Encode(NextText, screenWidth', screenHeight')

\* this step is a valid selection report that changes the selection; its
\* handler runs a pass at once
SelectionChanges ==
    <<currentScreenIndex', screenWidth', screenHeight'>> #
        <<currentScreenIndex, screenWidth, screenHeight>>

\* a handle is open before and after this step, the same, and it works; no
\* send is in flight and none was cut short
IdleOnHandle ==
    /\ proc = "running" /\ proc' = "running"
    /\ keyboard # <<>> /\ keyboard' = keyboard
    /\ health = "ok"
    /\ sends = <<>> /\ screenBuffer = <<>>

\* the selections (index, width, height) the reports of LiveSpec ask for
LiveSelections == {<<d[2], d[3], d[4]>> : d \in LiveReports}

Selection == <<currentScreenIndex, screenWidth, screenHeight>>

\* a send is in flight on a working handle while the frame of the selected
\* screen is another one than the text pushed last: a pass that would push
\* it is dropped
PendingBehindSend ==
    /\ Connected
    /\ sends # <<>>
    /\ CurrentFrame # <<>>
    /\ ~SameAsLast(screenLastUpdate, CurrentText)

\* the handle has received the frame of the selected screen, whole
CurrentFrameWritten ==
    /\ Connected
    /\ sends = <<>>
    /\ wire # <<>>
    /\ wire[1][2] = 2
    /\ Payloads(wire) = CurrentFrame

\* C1: at most one chunked send is in flight and the flag is set while it is;
\* the data packets a handle received since the last frame start are the
\* packets of one frame, in order: those of the send in flight, up to the one
\* it wrote last.  A push issued meanwhile wrote nothing.
C1_SingleFlight ==
    /\ Len(sends) <= 1
    /\ (sends # <<>> => screenBuffer # <<>>)
    /\ (wire # <<>> /\ wire[1][2] = 2 => OneFrame(wire))
    /\ (sends # <<>> /\ sends[1].idx >= 1 /\ wire # <<>> /\ wire[1][2] = 2
            => wire = SubSeq(sends[1].lines, 1, sends[1].idx))

\* C1, witness: a send is between two packets of its frame, and a selection
\* report that arrived since (the size it asks for is not the frame's) ran a
\* pass with another text to push; the handle has the frame's packets only.
C1_PushWhileInFlight ==
    /\ Connected
    /\ sends # <<>>
    /\ sends[1].idx >= 1
    /\ sends[1].idx < Len(sends[1].lines)
    /\ Len(screenBuffer[1]) # screenWidth * screenHeight
    /\ ~SameAsLast(screenLastUpdate, CurrentText)
    /\ wire = SubSeq(sends[1].lines, 1, sends[1].idx)

\* C2: after a packet write failed, the send-in-progress flag is not left
\* set: the flag is set only while a send is there to clear it.
C2_FlagClearedAfterFailure ==
    proc = "running" /\ sends = <<>> => screenBuffer = <<>>

\* C3: after a send was cut short, it does not happen that from some moment
\* on a working handle is open, the selected screen's frame is not empty and
\* differs from the last pushed one, and no frame is ever written (which
\* would record it as the last pushed one).
C3_NeverBlockedForever ==
    [](CutShort =>
        ~<>[](/\ Connected
              /\ devices # <<>>
              /\ CurrentFrame # <<>>
              /\ ~SameAsLast(screenLastUpdate, CurrentText)))

\* C4: the step in which a send is cut short by a write that throws leaves
\* the Device absent.
C4_FailureDiscardsDevice ==
    [][~CutShort /\ CutShort' => keyboard' = <<>>]_vars

\* C5: after a send was cut short, the last-pushed record is not the text of
\* the frame that was cut short: a push of the same frame is not taken for a
\* repetition.
C5_NotRecordedBeforeComplete ==
    (/\ CutShort
     /\ HasRenderer(currentScreenIndex)
     /\ CurrentFrame = screenBuffer[1])
        => ~SameAsLast(screenLastUpdate, CurrentText)

C7_FrameLength ==
    [][PushStarts =>
        IF screenWidth' * screenHeight' = 0
        THEN /\ screenBuffer' = <<>>
             /\ sends' = sends
             /\ (wire' = wire \/ wire' = <<InitPacket>>)
        ELSE /\ screenBuffer' # <<>>
             /\ Len(screenBuffer'[1]) = screenWidth' * screenHeight'
             /\ \A i \in 1..Len(sends') :
                    sends'[i] \notin {sends[k] : k \in 1..Len(sends)}
                        => Len(Payloads(sends'[i].lines)) =
                               screenWidth' * screenHeight']_vars

\* C7, witness: a frame of more than two packets is in flight for a text that
\* is shorter than the frame.
C7_LongFrameInFlight ==
    /\ sends # <<>>
    /\ Len(screenBuffer[1]) = screenWidth * screenHeight
    /\ Len(screenBuffer[1]) > 2 * (chunkSize - 1)
    /\ Len(Payloads(sends[1].lines)) = screenWidth * screenHeight
    /\ screenLastUpdate # <<>>
    /\ Len(screenLastUpdate[1]) \in 1..(Len(screenBuffer[1]) - 1)

\* C8: while a frame is in flight, its byte at every position is the
\* character of the pushed text at that position, and a space beyond the text.
C8_FrameKeepsText ==
    screenBuffer # <<>> /\ screenLastUpdate # <<>> =>
        \A j \in 1..Len(screenBuffer[1]) :
            screenBuffer[1][j] =
                IF j <= Len(screenLastUpdate[1])
                THEN screenLastUpdate[1][j] ELSE SpaceCode

\* C9: a send has ceil(L / 30) packets for its frame of L bytes; each is
\* [0, type, payload] with 1 to 30 payload bytes, type 2 for the first and 3
\* for the others; the payloads together are the frame; the handle received
\* them in order.
C9_Chunking ==
    \A i \in 1..Len(sends) :
        LET lines == sends[i].lines
            L == Len(screenBuffer[1])
        IN  /\ Len(lines) * (chunkSize - 1) >= L
            /\ (Len(lines) - 1) * (chunkSize - 1) < L
            /\ \A k \in 1..Len(lines) :
                   /\ lines[k][1] = 0
                   /\ lines[k][2] = (IF k = 1 THEN 2 ELSE 3)
                   /\ Len(Payload(lines[k])) \in 1..(chunkSize - 1)
            /\ Payloads(lines) = screenBuffer[1]
            /\ (sends[i].idx >= 1 /\ wire # <<>> /\ wire[1][2] = 2
                    => wire = SubSeq(lines, 1, sends[i].idx))

\* C9, witness: a send of three packets or more has written them all.
C9_AllPacketsWritten ==
    /\ sends # <<>>
    /\ Len(sends[1].lines) >= 3
    /\ sends[1].idx = Len(sends[1].lines)
    /\ wire = sends[1].lines

\* C10: the selected index is always one of 0..3; whenever a handle is open,
\* its data handler leaves the state as it is for a report with another
\* marker than 1 or an index above 3 (no pass runs), and for a report with
\* marker 1 and an index up to 3 sets index, width and height from its bytes.
C10_SelectionInRange ==
    /\ currentScreenIndex \in 0..(screensLength - 1)
    /\ proc = "running" /\ keyboard # <<>> =>
        \A data \in Reports, now \in Times :
            LET R == OnData(G, data, now)
            IN  IF data[1] = 1 /\ data[2] < screensLength
                THEN /\ R.currentScreenIndex = data[2]
                     /\ R.screenWidth = data[3]
                     /\ R.screenHeight = data[4]
                ELSE R = G

\* C10, witness: a report has selected the last slot at the largest size.
C10_LastSlotSelected ==
    /\ currentScreenIndex = screensLength - 1
    /\ screenWidth = MaxWidth
    /\ screenHeight = MaxHeight

\* C11: a pass at the moment now triggers the refresh of slot s (and stamps
\* it with now) exactly when s is selected and its active interval has
\* elapsed, or its background interval has elapsed; otherwise the stamp of s
\* stays as it is.
C11_RefreshExactlyWhenDue ==
    proc = "running" =>
        \A now \in RefreshTimes :
            NotBefore(now) =>
                LET R == updateKeyboardScreen(G, now, "ok")
                IN  \A s \in Slots :
                        IF \/ (currentScreenIndex = s
                                    /\ Elapsed(s, now, ActiveTime(s)))
                           \/ Elapsed(s, now, BackgroundTime(s))
                        THEN R.last_updates[s] = now /\ last_updates[s] # now
                        ELSE R.last_updates[s] = last_updates[s]

\* C11, witness: a pass has refreshed the selected first slot when its
\* active interval had elapsed, and not the second slot, which is not
\* selected.
C11_SelectedRefreshedAlone ==
    /\ proc = "running"
    /\ currentScreenIndex = SCREEN_PERF
    /\ last_updates[SCREEN_PERF] = BootTime + PERF_UPDATE_TIME
    /\ last_updates[SCREEN_STOCK] = BootTime

\* C12: the Device is absent or one handle on the keyboard's raw interface.
\* The error event of the handle leaves the Device absent and opens nothing
\* (nothing is written).  A pass with the Device absent leaves a handle on
\* the first attached device that matches, and no handle if none matches; a
\* pass with the Device present leaves the same handle and opens none (no
\* initialization packet starts what the handle received).
C12_DeviceCycle ==
    /\ keyboard = <<>> \/ (Len(keyboard) = 1 /\ IsRawInterface(keyboard[1]))
    /\ proc = "running" /\ keyboard # <<>> =>
            OnError(G).keyboard = <<>> /\ OnError(G).wire = <<>>
    /\ proc = "running" =>
            \A now \in Times :
                LET R == updateKeyboardScreen(G, now, "ok")
                IN  IF keyboard # <<>>
                    THEN /\ R.keyboard = keyboard
                         /\ (R.wire # <<>> /\ R.wire[1] = InitPacket
                                => wire # <<>> /\ wire[1] = InitPacket)
                    ELSE /\ R.keyboard = FirstRawInterface
                         /\ (FirstRawInterface = <<>> => R.wire = wire)

\* C12, witness: after an error event discarded a handle that had received
\* a frame, a pass has opened a handle again: it works and has received its
\* initialization packet only.
C12_Reconnected ==
    /\ proc = "running"
    /\ keyboard # <<>>
    /\ health = "ok"
    /\ wire = <<InitPacket>>
    /\ sends = <<>>
    /\ screenBuffer = <<>>
    /\ screenLastUpdate # <<>>
    /\ Len(screenLastUpdate[1]) > 1

\* C13: a handle that is open was written exactly one initialization packet,
\* and it was the first packet written to it.
C13_InitOnceAndFirst ==
    proc = "running" /\ keyboard # <<>> =>
        handleLog.inits = 1 /\ handleLog.first = "init"

\* C13, witness: a handle was written its initialization packet and then
\* the packets of a whole frame of three packets or more.
C13_FrameAfterInit ==
    /\ proc = "running"
    /\ keyboard # <<>>
    /\ handleLog.first = "init"
    /\ sends = <<>>
    /\ Len(wire) >= 3
    /\ wire[1][2] = 2

\* C14: no failure of the device ends the process: an error never leaves a
\* callback uncaught, and the timer goes on.
C14_FailuresContained == proc # "crashed"

\* C15: while the process runs, exactly one interval timer is armed, the one
\* `timer` holds, and it fires with the tick interval: after the first pass
\* and after every pass that a selection report ran at once.
C15_OneTimer ==
    proc = "running" => armed = 1 /\ timer = <<KEYBOARD_UPDATE_TIME>>

\* C15, witness: a selection report has selected the last slot (its handler
\* cancelled the timer, ran a pass and armed a timer) while a send was
\* waiting, and one timer is armed.
C15_RearmedBySelection ==
    /\ proc = "running"
    /\ currentScreenIndex = SCREEN_WEATHER
    /\ sends # <<>>
    /\ armed = 1

\* C16: the packets of a send are those of the frame that was rendered and
\* encoded, when the push started, from the index, width and height of that
\* moment; as long as the send is in flight no step, a selection report
\* included, changes its packets or the frame.
C16_FrameFromOneSnapshot ==
    [][/\ (sends = <<>> /\ sends' # <<>> =>
               /\ screenBuffer' =
                      <<Encode(NextText, screenWidth', screenHeight')>>
               /\ Payloads(sends'[1].lines) = screenBuffer'[1]
               /\ Len(Payloads(sends'[1].lines)) =
                      screenWidth' * screenHeight')
       /\ (sends # <<>> /\ sends' # <<>> =>
               /\ sends'[1].lines = sends[1].lines
               /\ screenBuffer' = screenBuffer
               /\ Payloads(sends'[1].lines) = screenBuffer'[1])]_vars

\* C16, witness: a send of a frame of the largest size has written two
\* packets and has more to write, and a selection report has changed the
\* size since the push started.
C16_ResizedInFlight ==
    /\ proc = "running"
    /\ sends # <<>>
    /\ sends[1].idx >= 2
    /\ sends[1].idx < Len(sends[1].lines)
    /\ Len(screenBuffer[1]) = MaxWidth * MaxHeight
    /\ screenWidth * screenHeight < MaxWidth * MaxHeight

\* C17: with a working handle and no send in flight, the pass that a
\* selection report runs starts the send of its frame when nothing was ever
\* pushed, and when the frame is not empty and differs from the frame the
\* handle received last.
C17_DifferentFrameWritten ==
    [][(/\ IdleOnHandle
        /\ SelectionChanges
        /\ HasRenderer(currentScreenIndex')
        /\ NextFrame # <<>>
        /\ \/ screenLastUpdate = <<>>
           \/ wire # <<>> /\ wire[1][2] = 2 /\ Payloads(wire) # NextFrame)
            => sends' # <<>> /\ screenBuffer' = <<NextFrame>>]_vars

C19_FrameOnOneHandle ==
    proc = "running" /\ wire # <<>> =>
        IF wire[1][2] = 2 THEN OneFrame(wire) ELSE wire = <<InitPacket>>

\* C20: a pass that opens a handle after something was pushed before, with
\* no send in flight and none cut short, writes the frame of the selected
\* screen to the new handle, whatever was pushed to the previous handle.
C20_FirstPushToNewHandleWritten ==
    [][(/\ proc = "running" /\ proc' = "running"
        /\ keyboard = <<>> /\ keyboard' # <<>>
        /\ sends = <<>> /\ screenBuffer = <<>>
        /\ screenLastUpdate # <<>>
        /\ HasRenderer(currentScreenIndex')
        /\ NextFrame # <<>>)
            => sends' # <<>> /\ screenBuffer' = <<NextFrame>>]_vars

====
